---- MODULE Spec2Model ----
(***************************************************************************)
(* A model of the DSAGENIE backend (src/server.js): an Express relay with  *)
(* three Groq-backed endpoints (/api/explanation, /api/pseudocode,         *)
(* /api/code), a YouTube playlist lookup (/api/youtube) and /health.       *)
(*                                                                         *)
(* JavaScript strings are sequences of one-character strings.  JavaScript  *)
(* values are tagged records [t, v]; request bodies are tagged objects.    *)
(* A handler runs atomically up to its next await (Node's run-to-          *)
(* completion), so there is one action per route and one per settlement    *)
(* of an awaited promise.                                                  *)
(***************************************************************************)
EXTENDS Integers, Sequences, FiniteSets, TLC

VARIABLES GROQ_API_KEY, YOUTUBE_API_KEY, workload, req

vars == <<GROQ_API_KEY, YOUTUBE_API_KEY, workload, req>>

(***************************************************************************)
(* Bounds of the model.                                                    *)
(***************************************************************************)
\* Requests that may be in flight at once under the concurrent workload.
NumReqs == 2
\* Largest run of whitespace put around a long problem description.
MaxPad == 1

\* src/server.js:43, 56, 68: slice(0, 6000)
DESC_LIMIT == 6000

(***************************************************************************)
(* Characters and strings.                                                 *)
(***************************************************************************)
Digits == {"0", "1", "2", "3", "4", "5", "6", "7", "8", "9"}

Letters ==
  {"a", "b", "c", "d", "e", "f", "g", "h", "i", "j", "k", "l", "m", "n", "o",
   "p", "q", "r", "s", "t", "u", "v", "w", "x", "y", "z", "A", "B", "C", "D",
   "E", "F", "G", "H", "I", "J", "K", "L", "M", "N", "O", "P", "Q", "R", "S",
   "T", "U", "V", "W", "X", "Y", "Z"}

\* \w of a JavaScript regular expression
IsWordChar(c) == c \in Letters \cup Digits \cup {"_"}

\* the white space String.prototype.trim removes
IsSpace(c) == c \in {" ", "\t", "\n", "\r"}

Min(a, b) == IF a < b THEN a ELSE b

\* n copies of the character c
Rep(n, c) == [i \in 1..n |-> c]

\* s.slice(0, n) for n >= 0
Slice0(s, n) == SubSeq(s, 1, Min(n, Len(s)))

\* sub occurs in s at index i
OccursAt(s, sub, i) ==
  /\ i >= 1
  /\ i + Len(sub) - 1 <= Len(s)
  /\ SubSeq(s, i, i + Len(sub) - 1) = sub

\* s.includes(sub)
Includes(s, sub) == \E i \in 1..(Len(s) + 1) : OccursAt(s, sub, i)

\* s.trim()
Trim(s) ==
  IF \A i \in 1..Len(s) : IsSpace(s[i]) THEN <<>>
  ELSE LET first == CHOOSE i \in 1..Len(s) :
                      ~IsSpace(s[i]) /\ \A j \in 1..(i - 1) : IsSpace(s[j])
           back  == CHOOSE k \in 0..(Len(s) - 1) :
                      ~IsSpace(s[Len(s) - k])
                      /\ \A j \in 0..(k - 1) : IsSpace(s[Len(s) - j])
       IN  SubSeq(s, first, Len(s) - back)

\* \b of a regular expression between s[i-1] and s[i]
WordBoundary(s, i) ==
  LET before == i - 1 >= 1 /\ i - 1 <= Len(s) /\ IsWordChar(s[i - 1])
      after  == i >= 1 /\ i <= Len(s) /\ IsWordChar(s[i])
  IN  before # after

(***************************************************************************)
(* JavaScript values.                                                      *)
(***************************************************************************)
Undefined == [t |-> "undefined", v |-> <<>>]
Null == [t |-> "null", v |-> <<>>]
Str(s) == [t |-> "string", v |-> s]
\* a number, v its decimal digits
Num(s) == [t |-> "number", v |-> s]

Truthy(x) ==
  CASE x.t = "string" -> x.v # <<>>
    [] x.t = "number" -> x.v # <<"0">>
    [] x.t = "object" -> TRUE
    [] OTHER -> FALSE

\* a || b
Or(a, b) == IF Truthy(a) THEN a ELSE b

\* a ?? b
Coalesce(a, b) == IF a.t \in {"undefined", "null"} THEN b ELSE a

\* `${x}`
ToStr(x) ==
  CASE x.t = "undefined" -> <<"u", "n", "d", "e", "f", "i", "n", "e", "d">>
    [] x.t = "null" -> <<"n", "u", "l", "l">>
    [] OTHER -> x.v

\* the outcome of evaluating an expression: a value, or an exception thrown
Ok(x) == [ok |-> TRUE, val |-> x, err |-> ""]
Throw(msg) == [ok |-> FALSE, val |-> Null, err |-> msg]

\* a parsed JSON request body
Obj(slug, title, url, desc, lang) ==
  [t |-> "object", problemSlug |-> slug, title |-> title, url |-> url,
   problemDescription |-> desc, language |-> lang]

EmptyBody == Obj(Undefined, Undefined, Undefined, Undefined, Undefined)

(***************************************************************************)
(* String constants of the program.                                        *)
(***************************************************************************)
URL_NEEDLE ==
  <<"l", "e", "e", "t", "c", "o", "d", "e", ".", "c", "o", "m", "/",
    "p", "r", "o", "b", "l", "e", "m", "s", "/">>

FALLBACK_DESC_PREFIX ==
  <<"L", "e", "e", "t", "C", "o", "d", "e", " ",
    "p", "r", "o", "b", "l", "e", "m", ":", " ">>

UNKNOWN_SLUG == <<"u", "n", "k", "n", "o", "w", "n">>
LEETCODE_SP == <<"L", "e", "e", "t", "C", "o", "d", "e", " ">>
CPP == <<"c", "p", "p">>
JAVA == <<"j", "a", "v", "a">>
PYTHON == <<"p", "y", "t", "h", "o", "n">>
LANG_CPP == <<"C", "+", "+">>
LANG_JAVA == <<"J", "a", "v", "a">>
LANG_PYTHON == <<"P", "y", "t", "h", "o", "n">>

GROQ_KEY_MSG ==
  "GROQ_API_KEY not set. Add it to backend .env (local) or Render Environment (deployed)."
EMPTY_MSG == "Empty response from Groq"
YOUTUBE_KEY_MSG == "YOUTUBE_API_KEY not set"

\* const groq = GROQ_API_KEY ? new Groq({ apiKey: GROQ_API_KEY }) : null
groq == IF Truthy(GROQ_API_KEY) THEN [t |-> "object", v |-> <<>>] ELSE Null

(***************************************************************************)
(* Prompt builders.  A prompt is the builder's fixed template (named by    *)
(* `template`) with the text of its holes.                                 *)
(***************************************************************************)
\* the description cut before it is trimmed: slice(0, 6000).trim()
statementTextCutFirst(problemTitle, problemSlug, problemDescription) ==
  IF ~Truthy(problemDescription)
    THEN Ok(FALLBACK_DESC_PREFIX \o ToStr(Or(problemTitle, problemSlug)))
  ELSE IF problemDescription.t # "string"
    THEN Throw("problemDescription.trim is not a function")
  ELSE IF Trim(problemDescription.v) # <<>>
    THEN Ok(Trim(Slice0(problemDescription.v, DESC_LIMIT)))
  ELSE Ok(FALLBACK_DESC_PREFIX \o ToStr(Or(problemTitle, problemSlug)))

\* const desc = problemDescription && problemDescription.trim() ? ... : ...
statementText(problemTitle, problemSlug, problemDescription) ==
  IF ~Truthy(problemDescription)
    THEN Ok(FALLBACK_DESC_PREFIX \o ToStr(Or(problemTitle, problemSlug)))
  ELSE IF problemDescription.t # "string"
    THEN Throw("problemDescription.trim is not a function")
  ELSE IF Trim(problemDescription.v) # <<>>
    THEN Ok(Slice0(Trim(problemDescription.v), DESC_LIMIT))
  ELSE Ok(FALLBACK_DESC_PREFIX \o ToStr(Or(problemTitle, problemSlug)))

buildExplanationUser(problemTitle, problemSlug, problemDescription) ==
  LET desc == statementText(problemTitle, problemSlug, problemDescription)
  IN  IF ~desc.ok THEN desc
      ELSE Ok([template |-> "explanation",
               head |-> ToStr(Or(problemTitle, problemSlug)),
               desc |-> desc.val, langName |-> <<>>])

buildPseudocodeUser(problemTitle, problemSlug, problemDescription) ==
  LET desc == statementText(problemTitle, problemSlug, problemDescription)
  IN  IF ~desc.ok THEN desc
      ELSE Ok([template |-> "pseudocode",
               head |-> ToStr(Or(problemTitle, problemSlug)),
               desc |-> desc.val, langName |-> <<>>])

\* { cpp: 'C++', java: 'Java', python: 'Python' }[language] || 'C++'
langNameOf(language) ==
  IF language = Str(CPP) THEN LANG_CPP
  ELSE IF language = Str(JAVA) THEN LANG_JAVA
  ELSE IF language = Str(PYTHON) THEN LANG_PYTHON
  ELSE LANG_CPP

buildCodeUser(problemTitle, problemSlug, problemDescription, language) ==
  LET desc == statementText(problemTitle, problemSlug, problemDescription)
  IN  IF ~desc.ok THEN desc
      ELSE Ok([template |-> "code",
               head |-> ToStr(Or(problemTitle, problemSlug)),
               desc |-> desc.val, langName |-> langNameOf(language)])

(***************************************************************************)
(* Request payload.                                                        *)
(***************************************************************************)
\* a capture group that stops at '/' only: ([^/]+)
UrlDelimsSlashOnly == {"/"}

UrlDelims == {"/", "?", "#"}

\* the places where /leetcode\.com\/problems\/([^/?#]+)/ matches
UrlMatchStarts(s) ==
  {i \in 1..Len(s) :
     /\ OccursAt(s, URL_NEEDLE, i)
     /\ i + Len(URL_NEEDLE) <= Len(s)
     /\ s[i + Len(URL_NEEDLE)] \notin UrlDelims}

\* the end of the greedy group ([^/?#]+) that starts at index a
SegmentEnd(s, a) ==
  CHOOSE b \in a..Len(s) :
    /\ \A j \in a..b : s[j] \notin UrlDelims
    /\ (b = Len(s) \/ s[b + 1] \in UrlDelims)

parseProblemFromUrl(url) ==
  IF ~Truthy(url) THEN Ok(Null)
  ELSE IF url.t # "string" THEN Throw("url.includes is not a function")
  ELSE IF ~Includes(url.v, URL_NEEDLE) THEN Ok(Null)
  ELSE IF UrlMatchStarts(url.v) = {} THEN Ok(Null)
  ELSE LET i == CHOOSE k \in UrlMatchStarts(url.v) :
                  \A m \in UrlMatchStarts(url.v) : k <= m
           a == i + Len(URL_NEEDLE)
       IN  Ok([t |-> "object", slug |-> Str(SubSeq(url.v, a, SegmentEnd(url.v, a)))])

\* parsed?.slug
slugOf(parsed) == IF parsed.t = "object" THEN parsed.slug ELSE Undefined

\* const body = req.body || {}
bodyOf(reqBody) == IF Truthy(reqBody) THEN reqBody ELSE EmptyBody

getPayload(reqBody) ==
  LET body == bodyOf(reqBody)
      parsed == IF Truthy(body.url) THEN parseProblemFromUrl(body.url) ELSE Ok(Null)
  IN  IF ~parsed.ok THEN parsed
      ELSE Ok([problemSlug |-> Or(Or(body.problemSlug, slugOf(parsed.val)), Str(UNKNOWN_SLUG)),
               title |-> Coalesce(body.title, Null),
               url |-> Coalesce(body.url, Null),
               problemDescription |-> Coalesce(body.problemDescription, Null)])

\* s[i..i+k-1] is a run of k digits with \b on both sides
NumberAt(s, i, k) ==
  /\ i + k - 1 <= Len(s)
  /\ \A j \in i..(i + k - 1) : s[j] \in Digits
  /\ WordBoundary(s, i)
  /\ WordBoundary(s, i + k)

\* s.match(/\b(\d{1,4})\b/): the captured digits, or null
matchNumber(s) ==
  LET starts == {i \in 1..Len(s) : \E k \in 1..4 : NumberAt(s, i, k)}
  IN  IF starts = {} THEN Null
      ELSE LET i == CHOOSE a \in starts : \A b \in starts : a <= b
               k == CHOOSE n \in 1..4 :
                      NumberAt(s, i, n) /\ \A m \in (n + 1)..4 : ~NumberAt(s, i, m)
           IN  Str(SubSeq(s, i, i + k - 1))

extractProblemNumber(title, slug) ==
  IF Truthy(title) /\ title.t # "string" THEN Throw("title.match is not a function")
  ELSE LET titleMatch == IF Truthy(title) THEN matchNumber(title.v) ELSE Null
       IN  IF Truthy(titleMatch) THEN Ok(titleMatch)
           ELSE IF Truthy(slug) /\ slug.t # "string"
             THEN Throw("slug.match is not a function")
           ELSE LET slugMatch == IF Truthy(slug) THEN matchNumber(slug.v) ELSE Null
                IN  IF Truthy(slugMatch) THEN Ok(slugMatch) ELSE Ok(Null)

(***************************************************************************)
(* One request: the handler's position, its locals that live across an     *)
(* await, the outbound calls it made, what those settled with, the errors   *)
(* its try block raised and the responses it sent.                          *)
(***************************************************************************)
Idle ==
  [pc |-> "idle", ep |-> "", body |-> Undefined, language |-> Undefined,
   problemNumber |-> Undefined, calls |-> <<>>, outcome |-> <<>>,
   thrown |-> <<>>, responses |-> <<>>]

Received(ep, reqBody) == [Idle EXCEPT !.pc = "running", !.ep = ep, !.body = reqBody]

\* res.status(status).json(body)
json(st, status, body) ==
  [st EXCEPT !.responses = Append(@, [status |-> status, body |-> body])]

\* a catch that hides the error behind a fixed message
catchGeneric(st, msg) ==
  json([st EXCEPT !.thrown = Append(@, msg), !.pc = "done"],
       500, [success |-> FALSE, error |-> "Internal Server Error"])

\* catch (e) { res.status(500).json({ success: false, error: e.message }) }
catch(st, msg) ==
  json([st EXCEPT !.thrown = Append(@, msg), !.pc = "done"],
       500, [success |-> FALSE, error |-> msg])

\* a call whose await was forgotten: the response goes out with the call pending
awaitForgotten(st, call, pc) ==
  json([st EXCEPT !.calls = Append(@, call), !.pc = "done"],
       200, [success |-> TRUE, data |-> [pending |-> TRUE]])

\* the handler suspends on an outbound call
await(st, call, pc) == [st EXCEPT !.calls = Append(@, call), !.pc = pc]

\* the awaited call settles
settled(st, status, o) ==
  [st EXCEPT !.calls[Len(st.calls)].status = status, !.outcome = Append(@, o)]

\* groqComplete without its check of the client
groqCompleteBeginUnchecked(systemPrompt, userPrompt) ==
  Ok([api |-> "groq", system |-> systemPrompt, prompt |-> userPrompt,
      status |-> "pending"])

\* groqComplete up to its await: the call it issues, or the error it throws
groqCompleteBegin(systemPrompt, userPrompt) ==
  IF ~Truthy(groq) THEN Throw(GROQ_KEY_MSG)
  ELSE Ok([api |-> "groq", system |-> systemPrompt, prompt |-> userPrompt,
           status |-> "pending"])

\* the content taken without trim()
untrimmedContent(content) ==
  IF content.t = "string" THEN content ELSE Undefined

\* completion?.choices?.[0]?.message?.content?.trim()
trimmedContent(content) ==
  IF content.t = "string" THEN Str(Trim(content.v)) ELSE Undefined

\* groqComplete after its await
groqCompleteEnd(o) ==
  IF o.settled = "rejected" THEN Throw(o.err)
  ELSE LET text == trimmedContent(o.content)
       IN  IF ~Truthy(text) THEN Throw(EMPTY_MSG) ELSE Ok(text.v)

\* app.post('/api/explanation'), up to the await
explanationHandler(st) ==
  LET p == getPayload(st.body)
  IN  IF ~p.ok THEN catch(st, p.err)
      ELSE
        LET userPrompt == buildExplanationUser(p.val.title, p.val.problemSlug,
                                               p.val.problemDescription)
        IN  IF ~userPrompt.ok THEN catch(st, userPrompt.err)
            ELSE LET g == groqCompleteBegin("EXPLANATION_SYSTEM", userPrompt.val)
                 IN  IF ~g.ok THEN catch(st, g.err) ELSE await(st, g.val, "awaitGroq")

\* app.post('/api/explanation'), from the await on
explanationResume(st, o) ==
  LET st1 == settled(st, o.settled, o)
      explanation == groqCompleteEnd(o)
  IN  IF ~explanation.ok THEN catch(st1, explanation.err)
      ELSE json([st1 EXCEPT !.pc = "done"], 200,
                [success |-> TRUE, data |-> [explanation |-> explanation.val]])

\* app.post('/api/pseudocode'), up to the await
pseudocodeHandler(st) ==
  LET p == getPayload(st.body)
  IN  IF ~p.ok THEN catch(st, p.err)
      ELSE
        LET userPrompt == buildPseudocodeUser(p.val.title, p.val.problemSlug,
                                              p.val.problemDescription)
        IN  IF ~userPrompt.ok THEN catch(st, userPrompt.err)
            ELSE LET g == groqCompleteBegin("PSEUDOCODE_SYSTEM", userPrompt.val)
                 IN  IF ~g.ok THEN catch(st, g.err) ELSE await(st, g.val, "awaitGroq")

\* app.post('/api/pseudocode'), from the await on
pseudocodeResume(st, o) ==
  LET st1 == settled(st, o.settled, o)
      pseudocode == groqCompleteEnd(o)
  IN  IF ~pseudocode.ok THEN catch(st1, pseudocode.err)
      ELSE json([st1 EXCEPT !.pc = "done"], 200,
                [success |-> TRUE, data |-> [pseudocode |-> pseudocode.val]])

\* the language taken from the body without the check against the allowed list
languageOfUnchecked(reqBody) ==
  IF Truthy(reqBody) THEN reqBody.language ELSE Undefined

\* ['cpp', 'java', 'python'].includes(req.body?.language) ? req.body.language : 'cpp'
languageOf(reqBody) ==
  LET language == IF Truthy(reqBody) THEN reqBody.language ELSE Undefined
  IN  IF language \in {Str(CPP), Str(JAVA), Str(PYTHON)} THEN language ELSE Str(CPP)

\* app.post('/api/code'), up to the await
codeHandler(st) ==
  LET payload == getPayload(st.body)
  IN  IF ~payload.ok THEN catch(st, payload.err)
      ELSE
        LET language == languageOf(st.body)
            st1 == [st EXCEPT !.language = language]
            userPrompt == buildCodeUser(payload.val.title, payload.val.problemSlug,
                                        payload.val.problemDescription, language)
        IN  IF ~userPrompt.ok THEN catch(st1, userPrompt.err)
            ELSE LET g == groqCompleteBegin("CODE_SYSTEM", userPrompt.val)
                 IN  IF ~g.ok THEN catch(st1, g.err) ELSE await(st1, g.val, "awaitGroq")

\* app.post('/api/code'), from the await on
codeResume(st, o) ==
  LET st1 == settled(st, o.settled, o)
      code == groqCompleteEnd(o)
  IN  IF ~code.ok THEN catch(st1, code.err)
      ELSE json([st1 EXCEPT !.pc = "done"], 200,
                [success |-> TRUE,
                 data |-> [code |-> code.val, language |-> st.language]])

(***************************************************************************)
(* /api/youtube                                                            *)
(***************************************************************************)
\* the credential check without its return
youtubeKeyCheckNoReturn ==
  IF ~Truthy(YOUTUBE_API_KEY)
    THEN [sent |-> <<[status |-> 500,
                      body |-> [success |-> FALSE, error |-> YOUTUBE_KEY_MSG]]>>,
          returned |-> FALSE]
    ELSE [sent |-> <<>>, returned |-> FALSE]

\* if (!YOUTUBE_API_KEY) { return res.status(500).json(...) }
youtubeKeyCheck ==
  IF ~Truthy(YOUTUBE_API_KEY)
    THEN [sent |-> <<[status |-> 500,
                      body |-> [success |-> FALSE, error |-> YOUTUBE_KEY_MSG]]>>,
          returned |-> TRUE]
    ELSE [sent |-> <<>>, returned |-> FALSE]

\* app.post('/api/youtube'), up to the first await
youtubeHandler(st) ==
  LET k == youtubeKeyCheck
      st0 == [st EXCEPT !.responses = @ \o k.sent]
  IN  IF k.returned THEN [st0 EXCEPT !.pc = "done"]
      ELSE
        LET p == getPayload(st.body)
        IN  IF ~p.ok THEN catch(st0, p.err)
            ELSE
              LET problemNumber == extractProblemNumber(p.val.title, p.val.problemSlug)
              IN  IF ~problemNumber.ok THEN catch(st0, problemNumber.err)
                  ELSE
                    LET st1 == [st0 EXCEPT !.problemNumber = problemNumber.val]
                    IN  IF ~Truthy(problemNumber.val)
                          THEN await(st1, [api |-> "youtube", maxResults |-> 1,
                                           status |-> "pending"], "awaitFetch")
                          ELSE await(st1, [api |-> "youtube", maxResults |-> 50,
                                           status |-> "pending"], "awaitFetch")

\* await fetch(url) settles
youtubeFetchResume(st, o) ==
  IF o.settled = "rejected" THEN catch(settled(st, "rejected", o), o.err)
  ELSE [settled(st, "headers", o) EXCEPT !.pc = "awaitJson"]

\* new RegExp(`\\b${problemNumber}\\b`) matches videoTitle
matchesWord(videoTitle, problemNumber) ==
  \E i \in 1..Len(videoTitle) :
    /\ OccursAt(videoTitle, problemNumber, i)
    /\ WordBoundary(videoTitle, i)
    /\ WordBoundary(videoTitle, i + Len(problemNumber))

\* the loop's condition with the whole-word test only
titleMatchesWordOnly(videoTitle, problemNumber) ==
  matchesWord(videoTitle, problemNumber)

\* the condition of the if in the loop over items
titleMatches(videoTitle, problemNumber) ==
  \/ Includes(videoTitle, <<" ">> \o problemNumber \o <<".">>)
  \/ Includes(videoTitle, <<"#">> \o problemNumber)
  \/ Includes(videoTitle, LEETCODE_SP \o problemNumber)
  \/ matchesWord(videoTitle, problemNumber)

\* for (const item of items) { ... bestVideoId = ...; break; }, from item i on
RECURSIVE searchItems(_, _, _)
searchItems(items, problemNumber, i) ==
  IF i > Len(items) THEN Null
  ELSE IF titleMatches(Or(items[i].title, Str(<<>>)).v, problemNumber)
    THEN items[i].videoId
  ELSE searchItems(items, problemNumber, i + 1)

\* the video chosen from ytData on the path with a problem number
bestVideoIdOf(o, problemNumber) ==
  LET items == IF o.hasItems THEN o.items ELSE <<>>
      found == searchItems(items, problemNumber, 1)
  IN  IF ~Truthy(found) /\ Len(items) > 0 THEN items[1].videoId ELSE found

\* fallbackData.items?.[0]?.snippet?.resourceId?.videoId || null
fallbackVideoIdOf(o) ==
  Or(IF o.hasItems /\ Len(o.items) > 0 THEN o.items[1].videoId ELSE Undefined, Null)

\* await res.json() settles; the rest of app.post('/api/youtube')
youtubeJsonResume(st, o) ==
  LET st1 == settled(st, o.settled, o)
  IN  IF o.settled = "rejected" THEN catch(st1, o.err)
      ELSE IF ~Truthy(st.problemNumber)
        THEN json([st1 EXCEPT !.pc = "done"], 200,
                  [success |-> TRUE, data |-> [videoId |-> fallbackVideoIdOf(o)]])
      ELSE json([st1 EXCEPT !.pc = "done"], 200,
                [success |-> TRUE,
                 data |-> [videoId |-> bestVideoIdOf(o, st.problemNumber.v)]])

\* app.get('/health')
healthHandler(st) == json([st EXCEPT !.pc = "done"], 200, [ok |-> TRUE])

(***************************************************************************)
(* The inputs the model draws from.                                        *)
(***************************************************************************)
\* 'two-sum'
S_TWO_SUM == <<"t", "w", "o", "-", "s", "u", "m">>
\* 'sum-3'
S_SUM_3 == <<"s", "u", "m", "-", "3">>
\* 'ab'
S_AB == <<"a", "b">>
\* 'Two Sum'
T_TWO_SUM == <<"T", "w", "o", " ", "S", "u", "m">>
\* '1. Two Sum'
T_1_TWO_SUM == <<"1", ".", " ", "T", "w", "o", " ", "S", "u", "m">>
\* 'LeetCode 12'
T_LEETCODE_12 == <<"L", "e", "e", "t", "C", "o", "d", "e", " ", "1", "2">>
\* '12345 x'
T_12345 == <<"1", "2", "3", "4", "5", " ", "x">>
\* 'a1 22'
T_A1_22 == <<"a", "1", " ", "2", "2">>
\* 'https://leetcode.com/problems/two-sum/description/'
U_PAGE == 
  <<"h", "t", "t", "p", "s", ":", "/", "/",
    "l", "e", "e", "t", "c", "o", "d", "e", ".", "c", "o", "m", "/",
    "p", "r", "o", "b", "l", "e", "m", "s", "/", "t", "w", "o", "-", "s", "u", "m", "/", "d", "e", "s", "c", "r", "i", "p", "t", "i", "o", "n", "/">>
\* 'leetcode.com/problems/ab?x'
U_QUERY == 
  <<"l", "e", "e", "t", "c", "o", "d", "e", ".", "c", "o", "m", "/",
    "p", "r", "o", "b", "l", "e", "m", "s", "/", "a", "b", "?", "x">>
\* 'leetcode.com/problems/ab#f'
U_HASH == 
  <<"l", "e", "e", "t", "c", "o", "d", "e", ".", "c", "o", "m", "/",
    "p", "r", "o", "b", "l", "e", "m", "s", "/", "a", "b", "#", "f">>
\* 'https://leetcode.com/problems/ab'
U_END == 
  <<"h", "t", "t", "p", "s", ":", "/", "/",
    "l", "e", "e", "t", "c", "o", "d", "e", ".", "c", "o", "m", "/",
    "p", "r", "o", "b", "l", "e", "m", "s", "/", "a", "b">>
\* 'leetcode.com/problems/'
U_NO_SEGMENT == 
  <<"l", "e", "e", "t", "c", "o", "d", "e", ".", "c", "o", "m", "/",
    "p", "r", "o", "b", "l", "e", "m", "s", "/">>
\* 'leetcode.com/problems//leetcode.com/problems/zz/'
U_EMPTY_FIRST == 
  <<"l", "e", "e", "t", "c", "o", "d", "e", ".", "c", "o", "m", "/",
    "p", "r", "o", "b", "l", "e", "m", "s", "/", "/",
    "l", "e", "e", "t", "c", "o", "d", "e", ".", "c", "o", "m", "/", "p", "r", "o", "b", "l", "e", "m", "s", "/", "z", "z", "/">>
\* 'leetcode.com/problems/?q'
U_DELIM == 
  <<"l", "e", "e", "t", "c", "o", "d", "e", ".", "c", "o", "m", "/",
    "p", "r", "o", "b", "l", "e", "m", "s", "/", "?", "q">>
\* 'example.com/problems/ab'
U_OTHER == 
  <<"e", "x", "a", "m", "p", "l", "e", ".", "c", "o", "m", "/",
    "p", "r", "o", "b", "l", "e", "m", "s", "/", "a", "b">>
\* 'leetcode.com/contest/ab'
U_CONTEST == 
  <<"l", "e", "e", "t", "c", "o", "d", "e", ".", "c", "o", "m", "/", "c", "o", "n", "t", "e", "s", "t", "/", "a", "b">>
\* ' ab \n'
D_PADDED == <<" ", "a", "b", " ", "\n">>
\* 'a b'
D_INNER == <<"a", " ", "b">>
\* ' \n'
D_BLANK == <<" ", "\n">>
\* 'Day 1. Two Sum'
V_DAY_1 == 
  <<"D", "a", "y", " ", "1", ".", " ", "T", "w", "o", " ", "S", "u", "m">>
\* '#12 x'
V_HASH_12 == <<"#", "1", "2", " ", "x">>
\* 'Sum 1'
V_SUM_1 == <<"S", "u", "m", " ", "1">>
\* 'x11 y'
V_X11 == <<"x", "1", "1", " ", "y">>
\* '12. z'
V_12_AT_START == <<"1", "2", ".", " ", "z">>
\* 'ok'
C_OK == <<"o", "k">>
\* ' ok\n'
C_PADDED == <<" ", "o", "k", "\n">>
\* '\to k '
C_INNER == <<"\t", "o", " ", "k", " ">>
\* 'rust'
L_RUST == <<"r", "u", "s", "t">>
\* 'Java'
L_JAVA_UPPER == <<"J", "a", "v", "a">>


Reqs == 1..NumReqs

\* the requests that arrive: one under the single workload, all of them
\* (interleaved) under the concurrent workload
Active == IF workload = "single" THEN {1} ELSE Reqs

\* a description of n characters ending in "z", inside p spaces and q newlines
LongDesc(p, n, q) == Rep(p, " ") \o Rep(n - 1, "a") \o <<"z">> \o Rep(q, "\n")

LongDescs ==
  {LongDesc(p, n, q) : p \in 0..MaxPad, q \in 0..MaxPad,
                       n \in {DESC_LIMIT - 1, DESC_LIMIT, DESC_LIMIT + 1}}
  \cup {Rep(DESC_LIMIT - 1, "a") \o <<" ", "b">>}

UrlBodies ==
  {Obj(slug, Undefined, url, Undefined, Undefined) :
     slug \in {Undefined, Str(<<>>), Str(S_AB), Num(<<"7">>)},
     url \in {Undefined, Null, Str(<<>>), Num(<<"5">>), Num(<<"0">>), Str(U_PAGE),
              Str(U_QUERY), Str(U_HASH), Str(U_END), Str(U_NO_SEGMENT),
              Str(U_EMPTY_FIRST), Str(U_DELIM), Str(U_OTHER), Str(U_CONTEST)}}

DescBodies ==
  {Obj(slug, title, Undefined, desc, Undefined) :
     slug \in {Undefined, Str(S_TWO_SUM)},
     title \in {Undefined, Str(<<>>), Str(T_TWO_SUM)},
     desc \in {Undefined, Null, Str(<<>>), Str(D_BLANK), Str(D_PADDED),
               Str(D_INNER), Num(<<"5">>), Num(<<"0">>)}}
  \cup {Obj(Str(S_TWO_SUM), Undefined, Undefined, Str(d), Undefined) : d \in LongDescs}

LanguageBodies ==
  {Obj(Str(S_TWO_SUM), Undefined, Undefined, Undefined, language) :
     language \in {Undefined, Null, Str(<<>>), Str(CPP), Str(JAVA), Str(PYTHON),
                   Str(L_RUST), Str(L_JAVA_UPPER), Num(<<"5">>)}}

NumberBodies ==
  {Obj(slug, title, Undefined, Undefined, Undefined) :
     slug \in {Undefined, Str(S_TWO_SUM), Str(S_SUM_3), Num(<<"7">>)},
     title \in {Undefined, Null, Str(T_TWO_SUM), Str(T_1_TWO_SUM), Str(T_LEETCODE_12),
                Str(T_12345), Str(T_A1_22), Num(<<"5">>)}}

SmallBodies ==
  {Undefined,
   Obj(Str(S_TWO_SUM), Str(T_1_TWO_SUM), Undefined, Str(D_PADDED), Str(JAVA)),
   Obj(Undefined, Undefined, Num(<<"5">>), Undefined, Undefined)}

\* the request bodies a client may send
Bodies ==
  IF workload = "single"
    THEN {Undefined} \cup UrlBodies \cup DescBodies \cup LanguageBodies \cup NumberBodies
    ELSE SmallBodies

\* what groq.chat.completions.create may settle with: a rejection, or a
\* completion whose choices[0].message.content is `content`
Completion(content) == [settled |-> "resolved", err |-> "", content |-> content]

GroqOutcomes ==
  IF workload = "single"
    THEN {[settled |-> "rejected", err |-> msg, content |-> Undefined] :
            msg \in {"Connection error.", "429 Rate limit reached"}}
         \cup {Completion(c) : c \in {Undefined, Null, Str(<<>>), Str(D_BLANK),
                                      Str(C_OK), Str(C_PADDED), Str(C_INNER)}}
    ELSE {[settled |-> "rejected", err |-> "Connection error.", content |-> Undefined],
          Completion(Str(<<>>)), Completion(Str(C_PADDED))}

\* what fetch(url) may settle with
FetchOutcomes ==
  {[settled |-> "rejected", err |-> "request to https://www.googleapis.com failed"],
   [settled |-> "resolved", err |-> ""]}

\* a playlist item: snippet.title and snippet.resourceId.videoId
Item(title, n) == [title |-> title, videoId |-> Str(<<"v", n>>)]

\* the items of a playlist with the given titles, in order
Playlist(titles) == [i \in 1..Len(titles) |-> Item(titles[i], <<"1", "2", "3">>[i])]

Playlists ==
  IF workload = "single"
    THEN {Playlist(t) :
            t \in {<<>>,
                   <<Str(V_X11)>>,
                   <<Str(V_X11), Str(V_SUM_1)>>,
                   <<Str(V_X11), Str(V_HASH_12), Str(V_SUM_1)>>,
                   <<Str(V_X11), Undefined>>,
                   <<Str(T_LEETCODE_12), Str(V_DAY_1)>>,
                   <<Str(V_SUM_1), Str(V_X11)>>,
                   <<Undefined, Str(V_DAY_1), Str(V_12_AT_START)>>,
                   <<Str(<<>>), Str(T_1_TWO_SUM), Str(V_SUM_1)>>}}
    ELSE {Playlist(<<Str(V_X11), Str(V_SUM_1)>>)}

\* what res.json() may settle with: a rejection, or the parsed body, with or
\* without an items array
JsonOutcomes ==
  {[settled |-> "rejected", err |-> "invalid json response body",
    hasItems |-> FALSE, items |-> <<>>]}
  \cup (IF workload = "single"
          THEN {[settled |-> "resolved", err |-> "", hasItems |-> FALSE, items |-> <<>>]}
          ELSE {})
  \cup {[settled |-> "resolved", err |-> "", hasItems |-> TRUE, items |-> items] :
          items \in Playlists}

(***************************************************************************)
(* The state machine.                                                      *)
(***************************************************************************)
Configs ==
  /\ GROQ_API_KEY \in {Undefined, Str(<<"g", "s", "k">>)}
  /\ YOUTUBE_API_KEY \in {Undefined, Str(<<"A", "I", "z", "a">>)}
  /\ req = [r \in Reqs |-> Idle]

Init == Configs /\ workload = "single"

ConcurrentInit == Configs /\ workload = "concurrent"

\* `language` declared without const: one variable for the whole process,
\* last written by whichever /api/code request arrived since
SharedClosure(r) ==
  LET others == {q \in Reqs \ {r} : req[q].pc # "idle" /\ req[q].ep = "/api/code"}
  IN  IF others = {} THEN req[r]
      ELSE [req[r] EXCEPT !.language = req[CHOOSE q \in others : TRUE].language]

\* the handler's variables as its continuation sees them after an await
Closure(r) == req[r]

Unchanged == UNCHANGED <<GROQ_API_KEY, YOUTUBE_API_KEY, workload>>

Arrives(r) == r \in Active /\ req[r].pc = "idle"

PostExplanation(r) ==
  /\ Arrives(r)
  /\ \E b \in Bodies :
       req' = [req EXCEPT ![r] = explanationHandler(Received("/api/explanation", b))]
  /\ Unchanged

PostPseudocode(r) ==
  /\ Arrives(r)
  /\ \E b \in Bodies :
       req' = [req EXCEPT ![r] = pseudocodeHandler(Received("/api/pseudocode", b))]
  /\ Unchanged

PostCode(r) ==
  /\ Arrives(r)
  /\ \E b \in Bodies :
       req' = [req EXCEPT ![r] = codeHandler(Received("/api/code", b))]
  /\ Unchanged

PostYoutube(r) ==
  /\ Arrives(r)
  /\ \E b \in Bodies :
       req' = [req EXCEPT ![r] = youtubeHandler(Received("/api/youtube", b))]
  /\ Unchanged

GetHealth(r) ==
  /\ Arrives(r)
  /\ req' = [req EXCEPT ![r] = healthHandler(Received("/health", Undefined))]
  /\ Unchanged

ExplanationSettles(r) ==
  /\ req[r].pc = "awaitGroq" /\ req[r].ep = "/api/explanation"
  /\ \E o \in GroqOutcomes : req' = [req EXCEPT ![r] = explanationResume(Closure(r), o)]
  /\ Unchanged

PseudocodeSettles(r) ==
  /\ req[r].pc = "awaitGroq" /\ req[r].ep = "/api/pseudocode"
  /\ \E o \in GroqOutcomes : req' = [req EXCEPT ![r] = pseudocodeResume(Closure(r), o)]
  /\ Unchanged

CodeSettles(r) ==
  /\ req[r].pc = "awaitGroq" /\ req[r].ep = "/api/code"
  /\ \E o \in GroqOutcomes : req' = [req EXCEPT ![r] = codeResume(Closure(r), o)]
  /\ Unchanged

FetchSettles(r) ==
  /\ req[r].pc = "awaitFetch"
  /\ \E o \in FetchOutcomes : req' = [req EXCEPT ![r] = youtubeFetchResume(Closure(r), o)]
  /\ Unchanged

JsonSettles(r) ==
  /\ req[r].pc = "awaitJson"
  /\ \E o \in JsonOutcomes : req' = [req EXCEPT ![r] = youtubeJsonResume(Closure(r), o)]
  /\ Unchanged

Next ==
  \E r \in Reqs :
    \/ PostExplanation(r)
    \/ PostPseudocode(r)
    \/ PostCode(r)
    \/ PostYoutube(r)
    \/ GetHealth(r)
    \/ ExplanationSettles(r)
    \/ PseudocodeSettles(r)
    \/ CodeSettles(r)
    \/ FetchSettles(r)
    \/ JsonSettles(r)

Spec == Init /\ [][Next]_vars

ConcurrentSpec == ConcurrentInit /\ [][Next]_vars

\* the call request r awaits settles
Settles(r) ==
  \/ ExplanationSettles(r)
  \/ PseudocodeSettles(r)
  \/ CodeSettles(r)
  \/ FetchSettles(r)
  \/ JsonSettles(r)

\* every awaited promise eventually settles
Fairness == \A r \in Reqs : WF_vars(Settles(r))

FairSpec == Spec /\ Fairness

(***************************************************************************)
(* Vocabulary of the properties.                                           *)
(***************************************************************************)
GroqEndpoints == {"/api/explanation", "/api/pseudocode", "/api/code"}
PostEndpoints == GroqEndpoints \cup {"/api/youtube"}

Error500(msg) == [status |-> 500, body |-> [success |-> FALSE, error |-> msg]]

\* the request has been answered at least once
Answered(st) == st.responses # <<>>

\* the credential the endpoint depends on is unset
CredentialUnset(st) ==
  \/ st.ep \in GroqEndpoints /\ ~Truthy(GROQ_API_KEY)
  \/ st.ep = "/api/youtube" /\ ~Truthy(YOUTUBE_API_KEY)

\* the outbound call (or the reading of its body) rejected
CallRejected(st) == \E i \in 1..Len(st.outcome) : st.outcome[i].settled = "rejected"

\* text that is missing, empty or only white space
Blank(content) ==
  content.t # "string" \/ \A i \in 1..Len(content.v) : IsSpace(content.v[i])

\* the model answered with no usable text
BlankCompletion(st) ==
  /\ st.ep \in GroqEndpoints
  /\ \E i \in 1..Len(st.outcome) :
       st.outcome[i].settled = "resolved" /\ Blank(st.outcome[i].content)

\* absent, null or a string
NullishOrString(x) == x.t \in {"undefined", "null", "string"}

\* every field of the request body is absent, null or a string
PlainBody(reqBody) ==
  LET body == bodyOf(reqBody)
  IN  /\ NullishOrString(body.problemSlug)
      /\ NullishOrString(body.title)
      /\ NullishOrString(body.url)
      /\ NullishOrString(body.problemDescription)
      /\ NullishOrString(body.language)

\* building the payload and the prompt's statement text throws nothing
BuildsWithoutThrowing(reqBody) ==
  /\ getPayload(reqBody).ok
  /\ statementText(getPayload(reqBody).val.title,
                   getPayload(reqBody).val.problemSlug,
                   getPayload(reqBody).val.problemDescription).ok

\* C1: on the four POST endpoints a request that fails (credential unset,
\* blank or missing model text, outbound call rejected, or an error thrown
\* while building the payload or prompt) is answered once, with HTTP 500 and
\* { success: false, error: <the raised error's message, unchanged> }; it
\* never gets a success=true response.
C1_FailuresSurfaceVerbatim ==
  \A r \in Reqs :
    LET st == req[r]
    IN  (/\ st.pc = "done"
         /\ st.ep \in PostEndpoints
         /\ \/ st.thrown # <<>>
            \/ CredentialUnset(st)
            \/ CallRejected(st)
            \/ BlankCompletion(st))
        => /\ Len(st.responses) = 1
           /\ st.responses[1].status = 500
           /\ DOMAIN st.responses[1].body = {"success", "error"}
           /\ st.responses[1].body.success = FALSE
           /\ st.thrown # <<>> => st.responses[1].body.error = st.thrown[1]
           /\ st.thrown = <<>> => st.responses[1].body.error = YOUTUBE_KEY_MSG
           /\ CallRejected(st) =>
                \E i \in 1..Len(st.outcome) :
                  /\ st.outcome[i].settled = "rejected"
                  /\ st.responses[1].body.error = st.outcome[i].err
           /\ BlankCompletion(st) => st.responses[1].body.error = EMPTY_MSG

\* C1's case: a /api/code request whose outbound call rejected has been
\* answered
C1_Witness ==
  \E r \in Reqs :
    /\ req[r].pc = "done"
    /\ req[r].ep = "/api/code"
    /\ CallRejected(req[r])
    /\ req[r].responses = <<Error500("429 Rate limit reached")>>

\* C2 as stated: with GROQ_API_KEY unset every request to the three Groq
\* endpoints is answered with the 'GROQ_API_KEY not set...' message, whatever
\* its body; with YOUTUBE_API_KEY unset every /api/youtube request is answered
\* 'YOUTUBE_API_KEY not set'; /health answers ok=true.
C2_Original ==
  \A r \in Reqs :
    LET st == req[r]
    IN  st.pc = "done" =>
          /\ (st.ep \in GroqEndpoints /\ ~Truthy(GROQ_API_KEY))
               => st.responses = <<Error500(GROQ_KEY_MSG)>>
          /\ (st.ep = "/api/youtube" /\ ~Truthy(YOUTUBE_API_KEY))
               => st.responses = <<Error500(YOUTUBE_KEY_MSG)>>
          /\ st.ep = "/health" => st.responses = <<[status |-> 200, body |-> [ok |-> TRUE]]>>

\* C2 amended: with GROQ_API_KEY unset every request to the three Groq
\* endpoints is answered success=false (HTTP 500), and the error is the
\* 'GROQ_API_KEY not set...' message whenever payload and prompt building
\* throw nothing, in particular for every body whose fields are each absent,
\* null or a string; with YOUTUBE_API_KEY unset every /api/youtube request,
\* whatever its body, is answered 'YOUTUBE_API_KEY not set'; /health answers
\* ok=true.
C2_UnsetCredential ==
  \A r \in Reqs :
    LET st == req[r]
    IN  st.pc = "done" =>
          /\ (st.ep \in GroqEndpoints /\ ~Truthy(GROQ_API_KEY))
               => /\ Len(st.responses) = 1
                  /\ st.responses[1].status = 500
                  /\ st.responses[1].body.success = FALSE
                  /\ BuildsWithoutThrowing(st.body) =>
                       st.responses[1].body.error = GROQ_KEY_MSG
                  /\ PlainBody(st.body) => st.responses[1].body.error = GROQ_KEY_MSG
          /\ (st.ep = "/api/youtube" /\ ~Truthy(YOUTUBE_API_KEY))
               => st.responses = <<Error500(YOUTUBE_KEY_MSG)>>
          /\ st.ep = "/health" => st.responses = <<[status |-> 200, body |-> [ok |-> TRUE]]>>

\* C2's case: a Groq endpoint answered while GROQ_API_KEY is unset
C2_Witness ==
  \E r \in Reqs :
    /\ req[r].pc = "done"
    /\ req[r].ep = "/api/pseudocode"
    /\ ~Truthy(GROQ_API_KEY)
    /\ Truthy(bodyOf(req[r].body).url)
    /\ req[r].responses = <<Error500(GROQ_KEY_MSG)>>

\* C3: a request makes at most one outbound call on every path (none when
\* the credential it needs is unset, none for /health, never a second one
\* after a failure or on the no-number path of /api/youtube), and it is
\* answered only once that call has resolved or rejected.
C3_AtMostOneCallAwaited ==
  \A r \in Reqs :
    LET st == req[r]
    IN  /\ Len(st.calls) <= 1
        /\ (CredentialUnset(st) \/ st.ep = "/health") => st.calls = <<>>
        /\ Answered(st) =>
             \A i \in 1..Len(st.calls) : st.calls[i].status \in {"resolved", "rejected"}
        /\ st.pc \in {"awaitGroq", "awaitFetch", "awaitJson"} =>
             Len(st.calls) = 1 /\ ~Answered(st)

\* C3's case: the no-number path of /api/youtube, answered after its one call
C3_Witness ==
  \E r \in Reqs :
    /\ req[r].ep = "/api/youtube"
    /\ req[r].pc = "done"
    /\ Len(req[r].calls) = 1
    /\ req[r].calls[1].maxResults = 1
    /\ req[r].calls[1].status = "resolved"
    /\ Len(req[r].responses) = 1

\* sub is in t at index i (character by character)
ContainsAt(t, i, sub) ==
  \A j \in 1..Len(sub) : i + j - 1 <= Len(t) /\ t[i + j - 1] = sub[j]

\* the title contains number n as ' n.', '#n', 'LeetCode n' or as a whole word
AcceptedFormat(t, n) ==
  \E i \in 1..Len(t) :
    \/ ContainsAt(t, i, <<" ">> \o n \o <<".">>)
    \/ ContainsAt(t, i, <<"#">> \o n)
    \/ ContainsAt(t, i, <<"L", "e", "e", "t", "C", "o", "d", "e", " ">> \o n)
    \/ /\ ContainsAt(t, i, n)
       /\ (i = 1 \/ ~IsWordChar(t[i - 1]))
       /\ (i + Len(n) > Len(t) \/ ~IsWordChar(t[i + Len(n)]))

\* the title of a playlist item, '' when it has none
TitleText(item) == IF item.title.t = "string" THEN item.title.v ELSE <<>>

\* the /api/youtube request extracted a problem number and got a list back
ListReturned(st) ==
  /\ st.ep = "/api/youtube"
  /\ st.pc = "done"
  /\ Truthy(st.problemNumber)
  /\ Len(st.outcome) = 2
  /\ st.outcome[2].settled = "resolved"

\* C4: for /api/youtube with a problem number and a returned list, the
\* videoId answered is that of the first item, in list order, whose title
\* contains the number in an accepted format; with no such item it is the
\* first item's videoId; it is null only when the list is empty.
C4_FirstMatchOrFirstItem ==
  \A r \in Reqs :
    LET st == req[r]
    IN  ListReturned(st) =>
          LET items == IF st.outcome[2].hasItems THEN st.outcome[2].items ELSE <<>>
              n == st.problemNumber.v
              hits == {i \in 1..Len(items) : AcceptedFormat(TitleText(items[i]), n)}
              videoId == st.responses[1].body.data.videoId
          IN  /\ Len(st.responses) = 1
              /\ st.responses[1].status = 200
              /\ st.responses[1].body.success = TRUE
              /\ hits # {} =>
                   \E i \in hits : (\A j \in hits : i <= j) /\ videoId = items[i].videoId
              /\ (hits = {} /\ Len(items) > 0) => videoId = items[1].videoId
              /\ videoId = Null <=> Len(items) = 0

\* C4's case: the number is found only as '#N' inside a longer number, in
\* the second of three items, and that item's video is answered
C4_Witness ==
  \E r \in Reqs :
    /\ ListReturned(req[r])
    /\ req[r].problemNumber = Str(<<"1">>)
    /\ req[r].outcome[2].hasItems
    /\ Len(req[r].outcome[2].items) = 3
    /\ req[r].outcome[2].items[2].title = Str(V_HASH_12)
    /\ req[r].outcome[2].items[1].title = Str(V_X11)
    /\ req[r].responses[1].body.data.videoId = Str(<<"v", "2">>)

\* the language /api/code must use for a request body
ExpectedLanguage(reqBody) ==
  LET asked == bodyOf(reqBody).language
  IN  IF asked.t = "string" /\ asked.v \in {CPP, JAVA, PYTHON} THEN asked ELSE Str(CPP)

\* the name a language tag has in the prompt
PromptName(tag) ==
  CASE tag = Str(CPP) -> <<"C", "+", "+">>
    [] tag = Str(JAVA) -> <<"J", "a", "v", "a">>
    [] tag = Str(PYTHON) -> <<"P", "y", "t", "h", "o", "n">>

\* C5: for /api/code the language the prompt is built for and the language
\* tag answered in data.language are the same, one of cpp, java, python: the
\* request's language when it is one of the three, cpp for any other value.
C5_LanguageDefaultsToCpp ==
  \A r \in Reqs :
    LET st == req[r]
    IN  st.ep = "/api/code" =>
          /\ st.calls # <<>> =>
               st.calls[1].prompt.langName = PromptName(ExpectedLanguage(st.body))
          /\ (Answered(st) /\ st.responses[1].body.success) =>
               /\ st.responses[1].body.data.language = ExpectedLanguage(st.body)
               /\ st.responses[1].body.data.language \in {Str(CPP), Str(JAVA), Str(PYTHON)}
               /\ st.calls[1].prompt.langName
                    = PromptName(st.responses[1].body.data.language)

\* C5's case: a request for 'rust' answered with code tagged cpp
C5_Witness ==
  \E r \in Reqs :
    /\ req[r].ep = "/api/code"
    /\ req[r].pc = "done"
    /\ bodyOf(req[r].body).language = Str(L_RUST)
    /\ req[r].responses[1].body.success
    /\ req[r].responses[1].body.data.language = Str(CPP)
    /\ req[r].calls[1].prompt.langName = <<"C", "+", "+">>

\* where 'leetcode.com/problems/' is followed by a non-empty path segment
SegmentStarts(u) ==
  {i \in 1..Len(u) :
     /\ ContainsAt(u, i, URL_NEEDLE)
     /\ i + Len(URL_NEEDLE) <= Len(u)
     /\ u[i + Len(URL_NEEDLE)] \notin {"/", "?", "#"}}

\* the path segment: the characters up to the first '/', '?' or '#'
PathSegment(u) ==
  LET i == CHOOSE k \in SegmentStarts(u) : \A m \in SegmentStarts(u) : k <= m
      a == i + Len(URL_NEEDLE)
      stops == {j \in a..Len(u) : u[j] \in {"/", "?", "#"}} \cup {Len(u) + 1}
      stop == CHOOSE j \in stops : \A m \in stops : j <= m
  IN  [j \in 1..(stop - a) |-> u[a + j - 1]]

\* the slug a request body stands for
ExpectedSlug(reqBody) ==
  LET body == bodyOf(reqBody)
  IN  IF Truthy(body.problemSlug) THEN body.problemSlug
      ELSE IF body.url.t = "string" /\ SegmentStarts(body.url.v) # {}
        THEN Str(PathSegment(body.url.v))
      ELSE Str(<<"u", "n", "k", "n", "o", "w", "n">>)

\* C6: with no (or an empty) problemSlug in the body and a url containing
\* 'leetcode.com/problems/<segment>', the slug used is exactly that segment;
\* a non-empty body problemSlug takes precedence over the URL; when neither
\* yields a slug it is 'unknown'.  This is the slug getPayload gives every
\* received request, and the one in the head of the prompt of a request
\* without a title.
C6_SlugFromUrl ==
  \A r \in Reqs :
    LET st == req[r]
    IN  /\ (st.pc # "idle" /\ getPayload(st.body).ok)
             => getPayload(st.body).val.problemSlug = ExpectedSlug(st.body)
        /\ (st.ep \in GroqEndpoints /\ st.calls # <<>> /\ ~Truthy(bodyOf(st.body).title))
             => st.calls[1].prompt.head = ToStr(ExpectedSlug(st.body))

\* C6's case: no body slug, a problem-page URL, and the prompt names two-sum
C6_Witness ==
  \E r \in Reqs :
    /\ req[r].ep = "/api/explanation"
    /\ req[r].calls # <<>>
    /\ bodyOf(req[r].body).problemSlug = Str(<<>>)
    /\ bodyOf(req[r].body).url = Str(U_QUERY)
    /\ req[r].calls[1].prompt.head = <<"a", "b">>

\* the model text a successful Groq endpoint response carries
ArtifactOf(st) ==
  CASE st.ep = "/api/explanation" -> st.responses[1].body.data.explanation
    [] st.ep = "/api/pseudocode" -> st.responses[1].body.data.pseudocode
    [] st.ep = "/api/code" -> st.responses[1].body.data.code

\* C7: every response of the four POST endpoints is either success=true
\* with data and no error, or success=false with an error string and no
\* data; a success=true response of the three Groq endpoints carries model
\* text that is non-empty and trimmed.
C7_ResponseEnvelope ==
  \A r \in Reqs :
    LET st == req[r]
    IN  st.ep \in PostEndpoints =>
          /\ \A i \in 1..Len(st.responses) :
               LET b == st.responses[i].body
               IN  \/ DOMAIN b = {"success", "data"} /\ b.success = TRUE
                   \/ DOMAIN b = {"success", "error"} /\ b.success = FALSE
                                                      /\ b.error \in STRING
          /\ (st.ep \in GroqEndpoints /\ Answered(st) /\ st.responses[1].body.success) =>
               /\ ArtifactOf(st) # <<>>
               /\ ~IsSpace(ArtifactOf(st)[1])
               /\ ~IsSpace(ArtifactOf(st)[Len(ArtifactOf(st))])
               /\ DOMAIN st.responses[1].body.data
                    = (IF st.ep = "/api/explanation" THEN {"explanation"}
                       ELSE IF st.ep = "/api/pseudocode" THEN {"pseudocode"}
                       ELSE {"code", "language"})

\* C7's case: model text that came padded with white space, answered trimmed
C7_Witness ==
  \E r \in Reqs :
    /\ req[r].ep = "/api/explanation"
    /\ req[r].pc = "done"
    /\ Len(req[r].outcome) = 1
    /\ req[r].outcome[1].content = Str(C_INNER)
    /\ req[r].responses[1].body = [success |-> TRUE, data |-> [explanation |-> <<"o", " ", "k">>]]

\* the handler of an endpoint, up to its first await
HandlerOf(st) ==
  CASE st.ep = "/api/explanation" -> explanationHandler(st)
    [] st.ep = "/api/pseudocode" -> pseudocodeHandler(st)
    [] st.ep = "/api/code" -> codeHandler(st)
    [] st.ep = "/api/youtube" -> youtubeHandler(st)
    [] st.ep = "/health" -> healthHandler(st)

\* the continuation of a suspended handler
ResumeOf(st, o) ==
  CASE st.pc = "awaitGroq" /\ st.ep = "/api/explanation" -> explanationResume(st, o)
    [] st.pc = "awaitGroq" /\ st.ep = "/api/pseudocode" -> pseudocodeResume(st, o)
    [] st.pc = "awaitGroq" /\ st.ep = "/api/code" -> codeResume(st, o)
    [] st.pc = "awaitFetch" -> youtubeFetchResume(st, o)
    [] st.pc = "awaitJson" -> youtubeJsonResume(st, o)
    [] OTHER -> st

\* a request handled with no other request in the process: its handler run
\* on its body, then resumed with each result of its own outbound call
RECURSIVE ResumeAll(_, _, _)
ResumeAll(st, outcomes, i) ==
  IF i > Len(outcomes) THEN st
  ELSE ResumeAll(ResumeOf(st, outcomes[i]), outcomes, i + 1)

Alone(ep, reqBody, outcomes) == ResumeAll(HandlerOf(Received(ep, reqBody)), outcomes, 1)

\* C8, first half: under any interleaving, everything a request has done (its
\* outbound prompt, its responses) is what the same request does alone: a
\* function of its endpoint and body, the process configuration and the
\* results of its own outbound call.
C8_AsIfAlone ==
  \A r \in Reqs :
    req[r].pc # "idle" => req[r] = Alone(req[r].ep, req[r].body, req[r].outcome)

\* C8, second half: a step of one request's handler changes neither the
\* process configuration nor anything of another request.
C8_WritesOnlyItsOwn ==
  /\ GROQ_API_KEY' = GROQ_API_KEY
  /\ YOUTUBE_API_KEY' = YOUTUBE_API_KEY
  /\ \A r, q \in Reqs : (r # q /\ req'[r] # req[r]) => req'[q] = req[q]

\* C8: requests are independent.
C8_Independent == [](C8_AsIfAlone) /\ [][C8_WritesOnlyItsOwn]_vars

\* C8's case: a /api/code request answered with its own language while
\* another /api/code request, for another language, is in flight
C8_Witness ==
  \E r, q \in Reqs :
    /\ r # q
    /\ req[r].ep = "/api/code" /\ req[q].ep = "/api/code"
    /\ req[r].pc = "done" /\ req[q].pc = "awaitGroq"
    /\ req[r].language = Str(JAVA) /\ req[q].language = Str(CPP)
    /\ Answered(req[r])
    /\ req[r].responses[1].body.success
    /\ req[r].responses[1].body.data.language = Str(JAVA)

\* the problemDescription of a request body
DescriptionOf(st) == bodyOf(st.body).problemDescription

\* the description has text other than white space
HasText(d) == d.t = "string" /\ \E i \in 1..Len(d.v) : ~IsSpace(d.v[i])

\* the statement text the prompt must carry
ExpectedStatement(st) ==
  LET d == DescriptionOf(st)
      title == bodyOf(st.body).title
  IN  IF HasText(d)
        THEN LET a == CHOOSE i \in 1..Len(d.v) :
                        ~IsSpace(d.v[i]) /\ \A j \in 1..(i - 1) : IsSpace(d.v[j])
                 k == CHOOSE m \in 0..(Len(d.v) - 1) :
                        ~IsSpace(d.v[Len(d.v) - m])
                        /\ \A j \in 0..(m - 1) : IsSpace(d.v[Len(d.v) - j])
                 n == IF Len(d.v) - k - a + 1 < 6000 THEN Len(d.v) - k - a + 1 ELSE 6000
             IN  [j \in 1..n |-> d.v[a + j - 1]]
        ELSE <<"L", "e", "e", "t", "C", "o", "d", "e", " ",
               "p", "r", "o", "b", "l", "e", "m", ":", " ">>
             \o (IF Truthy(title) THEN ToStr(title) ELSE ToStr(ExpectedSlug(st.body)))

\* C9: in all three prompt builders the statement text is the description
\* trimmed and then cut to at most 6000 characters when the description has
\* text, and otherwise 'LeetCode problem: ' followed by the title, or by the
\* slug when the title is empty; it never carries more than 6000 characters
\* of description, and a description of white space only counts as absent.
C9_StatementText ==
  \A r \in Reqs :
    LET st == req[r]
    IN  (st.ep \in GroqEndpoints /\ st.calls # <<>>) =>
          /\ st.calls[1].prompt.desc = ExpectedStatement(st)
          /\ HasText(DescriptionOf(st)) => Len(st.calls[1].prompt.desc) <= 6000
          /\ st.calls[1].prompt.template
               = (IF st.ep = "/api/explanation" THEN "explanation"
                  ELSE IF st.ep = "/api/pseudocode" THEN "pseudocode" ELSE "code")

\* C9's case: a padded description of 6001 characters, cut to its first 6000
C9_Witness ==
  \E r \in Reqs :
    /\ req[r].ep = "/api/pseudocode"
    /\ req[r].calls # <<>>
    /\ DescriptionOf(req[r]) = Str(LongDesc(1, DESC_LIMIT + 1, 1))
    /\ req[r].calls[1].prompt.desc = Rep(DESC_LIMIT, "a")

\* C10: every accepted request gets exactly one response: its handler never
\* sends a second one, and, its outbound call settling, it sends one.
C10_ExactlyOneResponse ==
  \A r \in Reqs :
    /\ [](Len(req[r].responses) <= 1)
    /\ (req[r].pc # "idle") ~> (req[r].pc = "done" /\ Len(req[r].responses) = 1)

\* C10's case: /api/youtube answered by its early credential check
C10_Witness ==
  \E r \in Reqs :
    /\ req[r].ep = "/api/youtube"
    /\ ~Truthy(YOUTUBE_API_KEY)
    /\ req[r].pc = "done"
    /\ req[r].responses = <<Error500(YOUTUBE_KEY_MSG)>>

====
